---- MODULE Spec2Model ----
(***************************************************************************)
(* Model of the todo HTTP service of src/main.go: the four /todo handlers, *)
(* the home handler, the recovery middleware and the process lifecycle,    *)
(* over one MongoDB collection.                                            *)
(*                                                                         *)
(* A handler runs in its own goroutine.  Everything a handler does before  *)
(* its storage call is local to the request, so it is one step (the        *)
(* handler's name); the storage call with the response written after it is *)
(* a second step (the handler's name followed by the driver call).         *)
(* Requests between the two steps are in `inflight`; any number of other   *)
(* requests' steps may come between them.  A step that writes a response   *)
(* leaves it in `last`; Deliver, the next step, hands it to the client.    *)
(* Handlers never read `last`, so this orders nothing they can observe.    *)
(*                                                                         *)
(* Strings that the code inspects by character (path identifiers) are      *)
(* sequences of one-character strings; a native ObjectId is a sequence of  *)
(* 12 bytes.  Titles are only ever compared with "", so they are strings.  *)
(***************************************************************************)
EXTENDS Integers, Sequences, FiniteSets, Bags

\* ------------------------------------------------------------- bounds
\* Requests that may be between their handler step and their storage call.
MaxInFlight == 2
\* bson.NewObjectId calls made by the process (caps objectIdCounter).
MaxCreates == 2

\* ---------------------------------------------------------- constants
\* net/http status codes, as the handlers pass them to the renderer.
StatusOK == 200
StatusCreated == 201
StatusProcessing == 102
StatusBadRequest == 400
StatusInternalServerError == 500
\* The length of the hex form of an ObjectId (12 bytes).
HexLen == 24

\* ------------------------------------------------- bson.ObjectId, hex
HexDigits == <<"0","1","2","3","4","5","6","7","8","9","a","b","c","d","e","f">>
UpperDigits == <<"0","1","2","3","4","5","6","7","8","9","A","B","C","D","E","F">>

\* encoding/hex.fromHexChar: the value of a digit of either case, -1 when
\* the character is none.
HexValue ==
  [c \in {HexDigits[i] : i \in 1..16} \cup {UpperDigits[i] : i \in 1..16} |->
     IF \E i \in 1..16 : HexDigits[i] = c
       THEN (CHOOSE i \in 1..16 : HexDigits[i] = c) - 1
       ELSE (CHOOSE i \in 1..16 : UpperDigits[i] = c) - 1]

FromHexChar(c) == IF c \in DOMAIN HexValue THEN HexValue[c] ELSE -1

\* ObjectId.Hex: two lower-case digits per byte.
Hex(oid) ==
  [i \in 1..(2 * Len(oid)) |->
     IF i % 2 = 1 THEN HexDigits[(oid[(i + 1) \div 2] \div 16) + 1]
                  ELSE HexDigits[(oid[i \div 2] % 16) + 1]]

\* bson.IsObjectIdHex: 24 characters that all decode as hex digits.
IsObjectIdHex(s) ==
  /\ Len(s) = HexLen
  /\ \A i \in 1..Len(s) : FromHexChar(s[i]) >= 0

\* hex.DecodeString on a string IsObjectIdHex accepts.
HexDecode(s) ==
  [i \in 1..(Len(s) \div 2) |->
     16 * FromHexChar(s[2 * i - 1]) + FromHexChar(s[2 * i])]

\* bson.ObjectIdHex: the native id, or a panic on input IsObjectIdHex rejects.
ObjectIdHex(s) ==
  IF IsObjectIdHex(s) THEN [panic |-> FALSE, oid |-> HexDecode(s)]
                      ELSE [panic |-> TRUE, oid |-> <<>>]

\* The low `k` bytes of n, big-endian (the conversions uint32(...) and
\* byte(i >> 16), byte(i >> 8), byte(i) keep exactly these).
BigEndian(n, k) == [i \in 1..k |-> (n \div (256 ^ (k - i))) % 256]

\* The machine and process parts of an ObjectId: fixed for one process.
MachineId == <<17, 34, 51>>
ProcessId == <<0, 9>>

\* bson.NewObjectId: 4 bytes of Unix time, 3 of machine, 2 of pid, and the
\* incremented counter's low 3 bytes.
NewObjectId(now, counter) ==
  BigEndian(now, 4) \o MachineId \o ProcessId \o BigEndian(counter, 3)

\* ------------------------------------------------------ request inputs
\* Path identifiers a client may send besides the hex form of an id a create
\* returned: the empty one (too short as well), 24 characters with a
\* non-digit, and a well-formed one (in upper case) that no create returns.
EmptyId == <<>>
NonHexId == [i \in 1..HexLen |-> IF i = 1 THEN "z" ELSE "0"]
UnknownId == [i \in 1..HexLen |-> "F"]

\* Request bodies: not JSON at all, {}, {"title":""},
\* {"title":"a","completed":true} and {"title":"b","completed":true}.
MkBody(json, hasTitle, title, hasCompleted, completed) ==
  [json |-> json, hasTitle |-> hasTitle, title |-> title,
   hasCompleted |-> hasCompleted, completed |-> completed]
BadBody == MkBody(FALSE, FALSE, "", FALSE, FALSE)
EmptyObject == MkBody(TRUE, FALSE, "", FALSE, FALSE)
BlankTitle == MkBody(TRUE, TRUE, "", FALSE, FALSE)
TitleADone == MkBody(TRUE, TRUE, "a", TRUE, TRUE)
TitleBDone == MkBody(TRUE, TRUE, "b", TRUE, TRUE)
\* The bodies sent to POST /todo/ and to PUT /todo/{id}.
CreateBodies == {BadBody, EmptyObject, BlankTitle, TitleADone}
UpdateBodies == {BadBody, BlankTitle, TitleBDone}

\* json.NewDecoder(r.Body).Decode(&t) into a zero `todo`: an error, or the
\* struct with the fields the body carries and zero values for the others.
Decode(body) ==
  IF ~body.json
    THEN [err |-> TRUE, Title |-> "", Completed |-> FALSE]
    ELSE [err |-> FALSE,
          Title |-> IF body.hasTitle THEN body.title ELSE "",
          Completed |-> IF body.hasCompleted THEN body.completed ELSE FALSE]

\* ---------------------------------------------------------------- state
VARIABLES
  collection,       \* the documents of the "todo" collection (todoModel);
                    \* a set: the order Find returns them in is not modelled
  objectIdCounter,  \* bson's process-wide ObjectId counter (its random
                    \* start is taken to be 0)
  clock,            \* the wall clock: the instant time.Now returned last
  inflight,         \* bag of requests whose storage call is still to run
  last,             \* the response written by the latest step, if any
  issued,           \* history: the todoModel of every successful insert
  deleted,          \* history: ids a DeleteOne removed
  updated,          \* history: ids an UpdateOne matched
  server            \* "running", "stopped" or "crashed"

vars == <<collection, objectIdCounter, clock, inflight, last, issued,
          deleted, updated, server>>

NoDoc == [_id |-> <<>>, title |-> "", completed |-> FALSE, createdAt |-> 0]

\* A request after its handler step: the inputs, the todoModel a create
\* built, and for an update whether its document was stored at that moment.
Request(op, id, body, tm, seen) ==
  [op |-> op, id |-> id, body |-> body, tm |-> tm, seen |-> seen]

\* A completed request: inputs, the response (status, the keys of its JSON
\* object, todo_id, data) and the storage calls it issued.
Response(op, id, body, status, keys, todoId, data, calls, seen) ==
  [op |-> op, id |-> id, body |-> body, status |-> status, keys |-> keys,
   todo_id |-> todoId, data |-> data, calls |-> calls, seen |-> seen]

\* `last` after a step that wrote no response.
NoResponse == Response("none", <<>>, BadBody, 0, {}, <<>>, {}, 0, FALSE)

Init ==
  /\ collection = {}
  /\ objectIdCounter = 0
  /\ clock = 0
  /\ inflight = EmptyBag
  /\ last = NoResponse
  /\ issued = {}
  /\ deleted = {}
  /\ updated = {}
  /\ server = "running"

Stored(oid) == \E d \in collection : d._id = oid

\* Whether the document a path identifier names is stored.
StoredHex(id) == IsObjectIdHex(id) /\ Stored(HexDecode(id))

\* Identifiers a client may put in a path.
PathIds == {Hex(t._id) : t \in issued} \cup {EmptyId, NonHexId, UnknownId}

\* The process is up and the response of the step before has gone out.
Accepting == server = "running" /\ last = NoResponse
HasRoom == BagCardinality(inflight) < MaxInFlight

Enqueue(r) == inflight' = inflight (+) SetToBag({r})
Dequeue(r) == inflight' = inflight (-) SetToBag({r})

\* time.Now: every read returns a later instant than the one before.
Now == clock + 1

\* ------------------------------------------------------------ storage
\* The driver's calls on the collection.  _id carries a unique index, so an
\* insert of a stored _id is refused; UpdateOne without upsert and DeleteOne
\* touch the one document the filter {_id: oid} matches, if any.
Find(coll) == coll

InsertOne(coll, tm) ==
  IF \E d \in coll : d._id = tm._id
    THEN [err |-> TRUE, coll |-> coll]
    ELSE [err |-> FALSE, coll |-> coll \cup {tm}]

\* Mutant: the matched document is replaced by one built from the body, as
\* ReplaceOne with a fresh todoModel would: createdAt becomes the zero time.
UpdateSetReplaces(d, t) ==
  [d EXCEPT !.title = t.Title, !.completed = t.Completed, !.createdAt = 0]

\* The update document of updateTodo: $set of title and completed.
UpdateSet(d, t) == [d EXCEPT !.title = t.Title, !.completed = t.Completed]

\* Mutant: UpdateOne with the upsert option set.
UpdateOneUpserts(coll, oid, t) ==
  IF \E d \in coll : d._id = oid
    THEN {IF d._id = oid THEN UpdateSet(d, t) ELSE d : d \in coll}
    ELSE coll \cup {[_id |-> oid, title |-> t.Title,
                     completed |-> t.Completed, createdAt |-> 0]}

UpdateOne(coll, oid, t) ==
  {IF d._id = oid THEN UpdateSet(d, t) ELSE d : d \in coll}

\* Mutant: the filter names a field no document has, so nothing matches.
DeleteOneWrongField(coll, oid) == coll

DeleteOne(coll, oid) == {d \in coll : d._id # oid}

\* --------------------------------------------------------- the mapper
\* todoModel -> todo, as fetchTodos builds it.
ToTodo(t) ==
  [ID |-> Hex(t._id), Title |-> t.title, Completed |-> t.completed,
   CreatedAt |-> t.createdAt]

\* Mutant: the body's completed flag is copied into the todoModel.
NewTodoModelCopiesCompleted(t, now, counter) ==
  [_id |-> NewObjectId(now, counter), title |-> t.Title,
   completed |-> t.Completed, createdAt |-> now]

\* The todoModel createTodo builds from the decoded body.
NewTodoModel(t, now, counter) ==
  [_id |-> NewObjectId(now, counter), title |-> t.Title,
   completed |-> FALSE, createdAt |-> now]

\* Mutants: a check that is left out.
createTitleUnchecked(t) == FALSE
updateTitleUnchecked(t) == FALSE
deleteIdUnchecked(id) == FALSE

\* The title checks of createTodo and updateTodo.
createTitleMissing(t) == t.Title = ""
updateTitleMissing(t) == t.Title = ""

\* The identifier check of deleteTodo.
deleteIdInvalid(id) == ~IsObjectIdHex(id)

\* The keys of the JSON object each response carries.
MessageOnly == {"message"}
MessageError == {"message", "error"}
\* rnd.JSON(w, status, err) of a decode error: the error value itself is
\* marshalled, a *json.SyntaxError as {"Offset": n}.
DecodeErrorKeys == {"Offset"}

NoBody == BadBody

\* A response that ends a request in its handler step, before any storage
\* call.
Reply(op, id, body, status, keys) ==
  /\ last' = Response(op, id, body, status, keys, <<>>, {}, 0, FALSE)
  /\ UNCHANGED <<collection, objectIdCounter, clock, inflight, issued,
                 deleted, updated, server>>

\* middleware.Recoverer: a panic in a handler becomes a 500 for that request.
Recoverer(op, id, body) ==
  Reply(op, id, body, StatusInternalServerError, {})

\* The handler reaches its storage call.
Proceed(r) ==
  /\ HasRoom
  /\ Enqueue(r)
  /\ UNCHANGED <<collection, last, issued, deleted, updated, server>>

\* The response written after a storage call.
Complete(r, status, keys, todoId, data) ==
  /\ Dequeue(r)
  /\ last' = Response(r.op, r.id, r.body, status, keys, todoId, data, 1,
                      r.seen)
  /\ UNCHANGED <<objectIdCounter, clock, server>>

Pending(op) == {r \in BagToSet(inflight) : r.op = op}

\* ------------------------------------------------------------ handlers
\* GET /: render the template; checkErr ends the process on an error.
homeHandler(err) ==
  /\ Accepting
  /\ IF err
       THEN /\ server' = "crashed"
            /\ inflight' = EmptyBag
            /\ last' = Response("home", <<>>, NoBody, 0, {}, <<>>, {}, 0,
                                FALSE)
            /\ UNCHANGED <<collection, objectIdCounter, clock, issued,
                           deleted, updated>>
       ELSE Reply("home", <<>>, NoBody, StatusOK, {})

\* GET /todo/: nothing precedes the Find.
fetchTodos ==
  /\ Accepting
  /\ Proceed(Request("list", <<>>, NoBody, NoDoc, FALSE))
  /\ UNCHANGED <<objectIdCounter, clock>>

fetchTodosFind(r, err) ==
  /\ Accepting
  /\ r \in Pending("list")
  /\ IF err
       THEN Complete(r, StatusProcessing, MessageError, <<>>, {})
       ELSE Complete(r, StatusOK, {"data"}, <<>>,
                     {ToTodo(t) : t \in Find(collection)})
  /\ UNCHANGED <<collection, issued, deleted, updated>>

\* POST /todo/: decode, check the title, build the todoModel.
createTodo(body) ==
  /\ Accepting
  /\ LET t == Decode(body) IN
     IF t.err
       THEN Reply("create", <<>>, body, StatusProcessing, DecodeErrorKeys)
     ELSE IF createTitleMissing(t)
       THEN Reply("create", <<>>, body, StatusBadRequest, MessageOnly)
     ELSE /\ objectIdCounter < MaxCreates
          /\ objectIdCounter' = objectIdCounter + 1
          /\ clock' = Now
          /\ Proceed(Request("create", <<>>, body,
                             NewTodoModel(t, Now, objectIdCounter + 1),
                             FALSE))

createTodoInsertOne(r, err) ==
  /\ Accepting
  /\ r \in Pending("create")
  /\ LET res == InsertOne(collection, r.tm) IN
     IF err \/ res.err
       THEN /\ Complete(r, StatusProcessing, MessageError, <<>>, {})
            /\ UNCHANGED <<collection, issued, deleted, updated>>
       ELSE /\ collection' = res.coll
            /\ issued' = issued \cup {r.tm}
            /\ Complete(r, StatusCreated, {"message", "todo_id"},
                        Hex(r.tm._id), {})
            /\ UNCHANGED <<deleted, updated>>

\* DELETE /todo/{id}: check the identifier's format.
deleteTodo(id) ==
  /\ Accepting
  /\ IF deleteIdInvalid(id)
       THEN Reply("delete", id, NoBody, StatusBadRequest, MessageOnly)
       ELSE /\ Proceed(Request("delete", id, NoBody, NoDoc, FALSE))
            /\ UNCHANGED <<objectIdCounter, clock>>

deleteTodoDeleteOne(r, err) ==
  /\ Accepting
  /\ r \in Pending("delete")
  /\ LET oid == ObjectIdHex(r.id).oid IN
     IF err
       THEN /\ Complete(r, StatusProcessing, MessageError, <<>>, {})
            /\ UNCHANGED <<collection, issued, deleted, updated>>
       ELSE /\ collection' = DeleteOne(collection, oid)
            /\ deleted' = IF Stored(oid) THEN deleted \cup {oid} ELSE deleted
            /\ Complete(r, StatusOK, MessageOnly, <<>>, {})
            /\ UNCHANGED <<issued, updated>>

\* PUT /todo/{id}: require an id, decode, check the title, build the filter
\* with bson.ObjectIdHex, which panics on an identifier of the wrong format.
updateTodo(id, body) ==
  /\ Accepting
  /\ LET t == Decode(body) IN
     IF id = EmptyId
       THEN Reply("update", id, body, StatusBadRequest, MessageOnly)
     ELSE IF t.err
       THEN Reply("update", id, body, StatusProcessing, DecodeErrorKeys)
     ELSE IF updateTitleMissing(t)
       THEN Reply("update", id, body, StatusBadRequest, MessageOnly)
     ELSE IF ObjectIdHex(id).panic
       THEN Recoverer("update", id, body)
     ELSE /\ Proceed(Request("update", id, body, NoDoc, StoredHex(id)))
          /\ UNCHANGED <<objectIdCounter, clock>>

updateTodoUpdateOne(r, err) ==
  /\ Accepting
  /\ r \in Pending("update")
  /\ LET oid == ObjectIdHex(r.id).oid IN
     IF err
       THEN /\ Complete(r, StatusProcessing, MessageError, <<>>, {})
            /\ UNCHANGED <<collection, issued, deleted, updated>>
       ELSE /\ collection' = UpdateOne(collection, oid, Decode(r.body))
            /\ updated' = IF Stored(oid) THEN updated \cup {oid} ELSE updated
            /\ Complete(r, StatusOK, MessageOnly, <<>>, {})
            /\ UNCHANGED <<issued, deleted>>

\* ------------------------------------------------------------ lifecycle
\* main: on the interrupt signal srv.Shutdown stops the listener and waits
\* for the running requests until its 5 second deadline; then os.Exit(0).
\* The requests that finish within the deadline are those whose storage call
\* ran before this step; the others are abandoned.
Interrupt ==
  /\ Accepting
  /\ server' = "stopped"
  /\ inflight' = EmptyBag
  /\ UNCHANGED <<collection, objectIdCounter, clock, last, issued, deleted,
                 updated>>

\* The response written by the step before goes out to the client.
Deliver ==
  /\ last # NoResponse
  /\ last' = NoResponse
  /\ UNCHANGED <<collection, objectIdCounter, clock, inflight, issued,
                 deleted, updated, server>>

Next ==
  \/ \E err \in BOOLEAN : homeHandler(err)
  \/ fetchTodos
  \/ \E r \in BagToSet(inflight), err \in BOOLEAN : fetchTodosFind(r, err)
  \/ \E body \in CreateBodies : createTodo(body)
  \/ \E r \in BagToSet(inflight), err \in BOOLEAN : createTodoInsertOne(r, err)
  \/ \E id \in PathIds : deleteTodo(id)
  \/ \E r \in BagToSet(inflight), err \in BOOLEAN : deleteTodoDeleteOne(r, err)
  \/ \E id \in PathIds, body \in UpdateBodies : updateTodo(id, body)
  \/ \E r \in BagToSet(inflight), err \in BOOLEAN : updateTodoUpdateOne(r, err)
  \/ Interrupt
  \/ Deliver

Spec == Init /\ [][Next]_vars

\* ============================================================== claims
\* A step in which a request of kind `op` gets its response.
Responds(op) == last = NoResponse /\ last'.op = op

\* The native id a completed request's path identifier names.
Oid(resp) == HexDecode(resp.id)

\* The stored documents with a given _id.
Docs(coll, oid) == {d \in coll : d._id = oid}

\* The items of a list response with a given identifier.
Items(data, id) == {x \in data : x.ID = id}

\* What a successful list must show for the inserted todoModel t.
ListedAsCreated(data, t) ==
  /\ Cardinality(Items(data, Hex(t._id))) = 1
  /\ \A x \in Items(data, Hex(t._id)) :
       x.Title = t.title /\ ~x.Completed /\ x.CreatedAt = t.createdAt

\* The response to a create whose insert succeeded, and the stored document.
CreateStoresGiven ==
  (Responds("create") /\ issued' # issued) =>
    /\ last'.status = StatusCreated
    /\ Len(last'.todo_id) > 0
    /\ "todo_id" \in last'.keys
    /\ Cardinality(Docs(collection', HexDecode(last'.todo_id))) = 1
    /\ \A d \in Docs(collection', HexDecode(last'.todo_id)) :
         /\ d \in issued'
         /\ d.title = Decode(last'.body).Title
         /\ d.title # ""
         /\ ~d.completed
         /\ d.createdAt \in 1..clock

\* C1, as stated: after a create with a parseable body and a non-empty title
\* whose insert succeeded, the response is 201 with a non-empty identifier,
\* and every list performed afterwards, before a delete of that identifier,
\* holds exactly one item with that identifier, the given title,
\* completed=false whatever the body said, and its createdAt.
C1_ListShowsCreatedUntilDeleted ==
  [][/\ CreateStoresGiven
     /\ (Responds("list") /\ last'.status = StatusOK) =>
          \A t \in issued : t._id \notin deleted => ListedAsCreated(last'.data, t)
    ]_vars

\* C1, amended: the same, for every list performed before a delete or an
\* update of that identifier.
C1_ListShowsCreatedUntilTouched ==
  [][/\ CreateStoresGiven
     /\ (Responds("list") /\ last'.status = StatusOK) =>
          \A t \in issued :
            t._id \notin (deleted \cup updated) => ListedAsCreated(last'.data, t)
    ]_vars

\* C1 witness: a list answered 200 shows a todo created from a body that said
\* completed=true, neither updated nor deleted since, as not completed.
C1_Witness ==
  /\ last.op = "list" /\ last.status = StatusOK
  /\ \E t \in issued :
       /\ t._id \notin (deleted \cup updated)
       /\ \E x \in last.data : x.ID = Hex(t._id) /\ x.Title = "a" /\ ~x.Completed

\* C2: a create whose body has an empty or no title is answered 400 in its
\* handler step: no insert is attempted and the collection is as before.
C2_EmptyTitleRejected ==
  [][/\ (Responds("create") /\ last'.body.json /\ Decode(last'.body).Title = "") =>
          /\ last'.status = StatusBadRequest
          /\ last'.calls = 0
          /\ collection' = collection
          /\ inflight' = inflight
     /\ \A r \in BagToSet(inflight') :
          r.op = "create" => (r.body.json /\ Decode(r.body).Title # "")
    ]_vars

\* C2 witness: a create without a title was answered 400 while a todo was
\* stored.
C2_Witness ==
  /\ last.op = "create" /\ last.status = StatusBadRequest
  /\ last.body.json /\ ~last.body.hasTitle
  /\ collection # {}

\* C3: an update that reaches a stored document and is answered 200 sets that
\* document's title and completed to the request's values; its _id and
\* createdAt, every other document and the number of documents are as before.
C3_UpdateChangesOnlyTitleAndCompleted ==
  [][(/\ Responds("update") /\ last'.status = StatusOK
      /\ Docs(collection, Oid(last')) # {}) =>
       /\ \E d \in collection :
            /\ d._id = Oid(last')
            /\ collection' =
                 (collection \ {d}) \cup
                   {[_id |-> d._id, title |-> Decode(last'.body).Title,
                     completed |-> Decode(last'.body).Completed,
                     createdAt |-> d.createdAt]}
       /\ Cardinality(collection') = Cardinality(collection)
       /\ Decode(last'.body).Title # ""
    ]_vars

\* C3 witness: an update answered 200, its document stored with the new
\* values beside another document.
C3_Witness ==
  /\ last.op = "update" /\ last.status = StatusOK
  /\ Cardinality(collection) >= 2
  /\ \E d \in collection :
       d._id = Oid(last) /\ d._id \in updated /\ d.title = "b" /\ d.completed

\* C4: an update to a well-formed identifier is answered 200 with a message
\* whether or not a document matched, and when none matched the collection is
\* as before: nothing is inserted.
C4_UpdateOfMissingChangesNothing ==
  [][(Responds("update") /\ last'.calls = 1 /\ last'.status # StatusProcessing) =>
       /\ last'.status = StatusOK
       /\ last'.keys = MessageOnly
       /\ (Docs(collection, Oid(last')) = {} => collection' = collection)
    ]_vars

\* C4 witness: an update answered 200 whose document was stored when the
\* handler ran and had been deleted when its UpdateOne ran.
C4_Witness ==
  /\ last.op = "update" /\ last.status = StatusOK
  /\ last.seen
  /\ Oid(last) \in deleted
  /\ Docs(collection, Oid(last)) = {}

\* C5: a delete that reaches a stored document is answered 200 and removes
\* that document alone; no later list shows an identifier once deleted.
C5_DeleteRemovesExactlyOne ==
  [][/\ (/\ Responds("delete") /\ last'.calls = 1
         /\ last'.status # StatusProcessing
         /\ Docs(collection, Oid(last')) # {}) =>
          /\ last'.status = StatusOK
          /\ collection' = collection \ Docs(collection, Oid(last'))
          /\ Cardinality(collection') = Cardinality(collection) - 1
          /\ Oid(last') \in deleted'
     /\ (Responds("list") /\ last'.status = StatusOK) =>
          \A oid \in deleted : Items(last'.data, Hex(oid)) = {}
     /\ deleted \subseteq deleted'
    ]_vars

\* C5 witness: a delete answered 200 has removed its document and another
\* document is still stored.
C5_Witness ==
  /\ last.op = "delete" /\ last.status = StatusOK
  /\ Oid(last) \in deleted
  /\ Docs(collection, Oid(last)) = {}
  /\ collection # {}

\* C6: a delete of a well-formed identifier that matches nothing is answered
\* 200 with a message, as a real deletion is, and changes nothing; a delete of
\* a malformed identifier is answered 400 in its handler step, with no storage
\* call and no change.
C6_DeleteOfMissingOrMalformed ==
  [][/\ (Responds("delete") /\ last'.calls = 1 /\ last'.status # StatusProcessing) =>
          /\ last'.status = StatusOK
          /\ last'.keys = MessageOnly
          /\ (Docs(collection, Oid(last')) = {} => collection' = collection)
     /\ (Responds("delete") /\ ~IsObjectIdHex(last'.id)) =>
          /\ last'.status = StatusBadRequest
          /\ last'.calls = 0
          /\ collection' = collection
          /\ inflight' = inflight
     /\ \A r \in BagToSet(inflight') : r.op = "delete" => IsObjectIdHex(r.id)
    ]_vars

\* C6 witness: a delete of an identifier no document has was answered 200
\* while a todo was stored.
C6_Witness ==
  /\ last.op = "delete" /\ last.status = StatusOK
  /\ last.id = UnknownId
  /\ collection # {}

\* C7: every stored document has a non-empty title, no two stored documents
\* share an _id, and each has the _id and createdAt of a todoModel that was
\* inserted.
C7_StoredItemsInvariant ==
  /\ \A d \in collection : d.title # ""
  /\ \A d, e \in collection : d._id = e._id => d = e
  /\ \A d \in collection :
       \E t \in issued : t._id = d._id /\ t.createdAt = d.createdAt

\* C7 witness: two documents are stored, one of them updated since its insert.
C7_Witness ==
  /\ Cardinality(collection) >= 2
  /\ \E d \in collection : d._id \in updated

\* C8: an update whose path identifier is not a well-formed ObjectId hex
\* string is answered 400, as a delete is, and issues no storage call,
\* whatever its body.
C8_UpdateRejectsMalformedId ==
  (last.op = "update" /\ ~IsObjectIdHex(last.id)) =>
    (last.status = StatusBadRequest /\ last.calls = 0)

\* C9: a create or update whose body is not JSON is answered 400 with a JSON
\* object that has a message, and issues no storage call.
C9_MalformedBodyIsBadRequest ==
  (last.op \in {"create", "update"} /\ ~last.body.json) =>
    /\ last.status = StatusBadRequest
    /\ "message" \in last.keys
    /\ last.calls = 0

\* C10: no request stops the server: a fault in a handler is answered with a
\* 500 and the process runs on; it exits only on the interrupt signal.
C10_OnlyInterruptStopsServer ==
  /\ server \in {"running", "stopped"}
  /\ last.op = "home" => last.status \in {StatusOK, StatusInternalServerError}

====
